---- MODULE Spec2Model ----
(***************************************************************************)
(* A state-machine model of src/assets/scripts/main.js: the application    *)
(* object RobosexualityApp (particle field, intersection handlers, stat    *)
(* counters) and the modules it owns (navigation, form).                   *)
(*                                                                         *)
(* The browser is the environment: it delivers events (resize, blur,       *)
(* focus, visibilitychange, submit, click), intersection batches, timer    *)
(* expiries and rendering frames, one at a time (run to completion).       *)
(* The page's markup is an input: every specification below fixes the part *)
(* of the page it is about in its initial-state predicate and leaves the   *)
(* rest of the page empty.                                                 *)
(***************************************************************************)
EXTENDS Integers, Sequences, FiniteSets, TLC

VARIABLES
  \* ---- RobosexualityApp
  isInitialized,        \* this.isInitialized
  initPc,               \* where the constructor's init() stands: "awaiting" | "done"
  currentSection,       \* this.state.currentSection
  \* ---- the host's frame scheduler and clock
  clock,                \* performance.now(), in milliseconds
  nextHandle,           \* the next id requestAnimationFrame returns
  rafQueue,             \* pending frame callbacks: [id, kind, ref]
  \* ---- particle field
  canvasPresent,        \* document.querySelector('.hero__particles') finds a canvas
  offsetSize,           \* canvas.offsetWidth/offsetHeight (the layout box)
  canvasSize,           \* canvas.width/height (the drawing surface)
  loopCount,            \* number of initializeParticles closures created so far
  particleSize,         \* per closure: the surface size its particles were created for
  animationId,          \* per closure: its local variable animationId
  particleAnimationId,  \* this.particleAnimationId (0 = undefined)
  resizeInThrottle,     \* inThrottle of throttledResizeHandler
  hidden,               \* document.hidden
  \* ---- stat counters
  statTarget,           \* per stat element: parseInt(stat.dataset.target)
  statStart,            \* per stat element: startTime of its closure
  statObserved,         \* per stat element: its observer still observes it
  statText,             \* per stat element: textContent (-1 = the markup's text)
  \* ---- navigation links and analytics
  linkHref,             \* per nav link: the section its href "#id" names
  linkActive,           \* the links carrying nav__link--active
  events,               \* AnalyticsModule.events (category and label)
  \* ---- reveal watcher
  classList,            \* per observed element: its classList, in order
  \* ---- contact form
  btnState,             \* the state last given to setSubmitState
  btnDisabled,          \* button.disabled
  timers,               \* pending setTimeout callbacks of the form: [kind, left]
  \* ---- history (not program state; recorded for the properties)
  phase,                \* "running", "paused" (pause handled, no resume since), "resumed"
  loopsAtPause,         \* loopCount when the last pause was handled
  statRuns,             \* per stat element: how often its count-up was started
  statTrigger,          \* per stat element: clock at its first start (-1 = never)
  statElapsed,          \* per stat element: elapsed computed by its last frame (-1 = none)
  statFrameAt,          \* per stat element: clock of its last frame (-1 = none)
  statDone,             \* per stat element: a frame has seen progress 1
  lastBatch,            \* the batch the section watcher processed last
  prevSection,          \* currentSection before that batch
  lastLinkArg,          \* sectionId of the last updateActiveLink call ("" = none)
  lastRevealBatch,      \* the batch the reveal watcher processed last
  revealTriggers,       \* per observed element: intersecting entries handled (saturating)
  attempt,              \* the form's latest submission, see HandleSubmit
  thrown,               \* the handlers that ended in an uncaught TypeError
  lastFieldOp,          \* what the particle set saw last: "init", "frame", "resize"
  \* ---- which elements the page has
  headerPresent,        \* document.querySelector('.header') finds an element
  playPresent,          \* document.querySelector('.animation-play') finds a button
  pausePresent,         \* document.querySelector('.animation-pause') finds a button
  submitBtnPresent,     \* form.querySelector('button[type="submit"]') finds a button
  \* ---- scrolling
  pageYOffset,          \* window.pageYOffset
  scrollPosition,       \* this.state.scrollPosition
  headerScrolled,       \* the header carries header--scrolled
  scrollInThrottle,     \* inThrottle of throttledScrollHandler
  \* ---- slide animation (AnimationModule)
  isPlaying,            \* AnimationModule.isPlaying
  animationPlaying,     \* app.state.animationPlaying
  playDisabled,         \* playButton.disabled
  pauseDisabled,        \* pauseButton.disabled
  intervals,            \* number of running setInterval timers of the module
  \* ---- one particle set (the array of one initializeParticles closure)
  fieldParticles,       \* particles: sequence of [x, y, vx, vy], in quarter pixels
  surface,              \* canvas.width and canvas.height as that closure reads them
  drawLog,              \* the canvas operations of the closure's last frame, in order
  \* ---- the form's named fields
  fieldValue,           \* per field name: what field.value holds, see Values
  fieldError,           \* the fields carrying field-error
  lastFormOp,           \* history: the form handler that ran last
  \* ---- mobile menu (NavigationModule)
  isMenuOpen,           \* app.state.isMenuOpen
  menuActive,           \* #nav-menu carries nav__list--active
  ariaExpanded,         \* aria-expanded of #nav-toggle
  bodyOverflow,         \* document.body.style.overflow
  \* ---- calls of init()
  pendingInits,         \* later init() calls suspended at their await
  modulesBuilt,         \* how often initializeModules has constructed the modules
  setups,               \* how often listeners and observers have been registered
  \* ---- slide frames (AnimationModule)
  frameCount,           \* document.querySelectorAll('.frame').length
  currentFrame,         \* AnimationModule.currentFrame
  frameActive,          \* the frames (by number) carrying frame--active
  placeholderActive,    \* the placeholders (by number) whose text says Active
  lastFrameOp           \* history: "none", "tick" (nextFrame) or "click" (showFrame)

appVars      == <<isInitialized, initPc>>
frameVars    == <<clock, nextHandle, rafQueue>>
particleVars == <<canvasPresent, offsetSize, canvasSize, loopCount, particleSize,
                  animationId, particleAnimationId, resizeInThrottle, hidden,
                  phase, loopsAtPause>>
statVars     == <<statTarget, statStart, statObserved, statText, statRuns,
                  statTrigger, statElapsed, statFrameAt, statDone>>
navVars      == <<currentSection, linkHref, linkActive, events, lastBatch,
                  prevSection, lastLinkArg>>
revealVars   == <<classList, lastRevealBatch, revealTriggers>>
formVars     == <<btnState, btnDisabled, timers, attempt>>
domVars      == <<headerPresent, playPresent, pausePresent, submitBtnPresent>>
scrollVars   == <<pageYOffset, scrollPosition, headerScrolled, scrollInThrottle>>
slideVars    == <<isPlaying, animationPlaying, playDisabled, pauseDisabled,
                  intervals>>
fieldVars    == <<fieldParticles, surface, drawLog, lastFieldOp>>
inputVars    == <<fieldValue, fieldError, lastFormOp>>
menuVars     == <<isMenuOpen, menuActive, ariaExpanded, bodyOverflow>>
initVars     == <<pendingInits, modulesBuilt, setups>>
showVars     == <<frameCount, currentFrame, frameActive, placeholderActive,
                  lastFrameOp>>
moreVars     == <<inputVars, menuVars, initVars, showVars>>
extVars      == <<domVars, scrollVars, slideVars, fieldVars, thrown, moreVars>>
vars == <<appVars, frameVars, particleVars, statVars, navVars, revealVars,
          formVars, extVars>>

(***************************************************************************)
(* Bounds of the model and constants of the program.                       *)
(***************************************************************************)
MaxHandle == 8       \* requestAnimationFrame ids handed out in a run
MaxLoops == 3         \* initializeParticles closures created in a run
MaxTicks == 6         \* the clock saturates after MaxTicks quanta
MaxEvents == 3        \* analytics events recorded in a run
MaxSubmits == 3       \* form submissions started in a run
MaxTriggers == 2      \* reveal triggers counted per element (then saturates)

duration == 2000      \* animateStatistics: const duration
submitDelay == 2000   \* submitForm: setTimeout(..., 2000)
resetDelay == 3000    \* handleSubmit: setTimeout(..., 3000)

Quantum == duration \div 4                \* resolution of the clock
MaxClock == MaxTicks * Quantum
FormQuantum == resetDelay - submitDelay   \* resolution of the form's timers

Min(a, b) == IF a < b THEN a ELSE b

Sizes == {"narrow", "wide"}               \* layout boxes of the canvas
Stats == {"s1", "s2"}                     \* .stat__number elements
Targets == {0, 7, 100}                    \* data-target values
Sections == {"home", "history", "contact"}   \* section[id] elements
Links == {"l1", "l2"}                     \* .nav__link elements
Els == {"e1", "e2"}                       \* elements of the reveal watcher
Kinds == {"timeline__item", "story-card", "prediction-card", "finding-card"}

(***************************************************************************)
(* The state after `new RobosexualityApp()`: the constructor has set the   *)
(* fields and called init(), which constructed the modules and is          *)
(* suspended at its await.  The page is the part each specification adds.  *)
(***************************************************************************)
Constructed ==
  /\ isInitialized = FALSE
  /\ initPc = "awaiting"
  /\ currentSection = "home"
  /\ clock = 0
  /\ nextHandle = 1
  /\ rafQueue = {}
  /\ canvasSize = "default"
  /\ loopCount = 0
  /\ particleSize = <<>>
  /\ animationId = <<>>
  /\ particleAnimationId = 0
  /\ resizeInThrottle = FALSE
  /\ hidden = FALSE
  /\ events = <<>>
  /\ phase = "running"
  /\ loopsAtPause = 0
  /\ lastBatch = <<>>
  /\ prevSection = "home"
  /\ lastLinkArg = ""
  /\ lastRevealBatch = <<>>
  /\ scrollPosition = 0
  /\ scrollInThrottle = FALSE
  /\ isPlaying = FALSE
  /\ animationPlaying = FALSE
  /\ intervals = 0
  /\ thrown = {}
  /\ isMenuOpen = FALSE
  /\ lastFormOp = "none"
  /\ pendingInits = 0
  /\ modulesBuilt = 1
  /\ setups = 0
  /\ currentFrame = 1
  /\ lastFrameOp = "none"

\* Pages: what document.querySelector(All) finds.
PageCanvas == canvasPresent \in BOOLEAN /\ offsetSize \in Sizes
PageNoCanvas == canvasPresent = FALSE /\ offsetSize \in {"narrow"}

PageStatsOf(S) ==
  /\ statTarget \in [S -> Targets]
  /\ statStart = [s \in S |-> 0]
  /\ statObserved = [s \in S |-> FALSE]
  /\ statText = [s \in S |-> -1]
  /\ statRuns = [s \in S |-> 0]
  /\ statTrigger = [s \in S |-> -1]
  /\ statElapsed = [s \in S |-> -1]
  /\ statFrameAt = [s \in S |-> -1]
  /\ statDone = [s \in S |-> FALSE]

StatEls == DOMAIN statTarget

(***************************************************************************)
(* requestAnimationFrame / cancelAnimationFrame                            *)
(***************************************************************************)
Callback(id, kind, ref) == [id |-> id, kind |-> kind, ref |-> ref]

\* cancelAnimationFrame(id): a handle that is not pending is ignored.
CancelAnimationFrame(queue, id) == {cb \in queue : cb.id # id}

(***************************************************************************)
(* initializeParticles, entered with the layout box `layout` and the       *)
(* frame queue `queue`: sizes the canvas, creates a closure with its own   *)
(* particles, runs animate() once (which requests the next frame) and      *)
(* stores that first handle in this.particleAnimationId.                   *)
(***************************************************************************)
InitializeParticlesUnguarded(layout, queue) ==
  /\ canvasSize' = layout
  /\ loopCount' = loopCount + 1
  /\ particleSize' = Append(particleSize, layout)
  /\ rafQueue' = queue \cup {Callback(nextHandle, "particle", loopCount + 1)}
  /\ animationId' = Append(animationId, nextHandle)
  /\ nextHandle' = nextHandle + 1
  /\ particleAnimationId' = nextHandle

InitializeParticles(layout, queue) ==
  IF ~canvasPresent
    THEN /\ rafQueue' = queue
         /\ UNCHANGED <<nextHandle, canvasSize, loopCount, particleSize,
                        animationId, particleAnimationId>>
    ELSE /\ canvasSize' = layout
         /\ loopCount' = loopCount + 1
         /\ particleSize' = Append(particleSize, layout)
         /\ rafQueue' = queue \cup {Callback(nextHandle, "particle", loopCount + 1)}
         /\ animationId' = Append(animationId, nextHandle)
         /\ nextHandle' = nextHandle + 1
         /\ particleAnimationId' = nextHandle

\* Room for one more closure and one more handle.
CanInitialize == loopCount < MaxLoops /\ nextHandle <= MaxHandle

\* animateStatistics: every stat element gets a closure and an observer.
AnimateStatistics ==
  /\ statStart' = [s \in StatEls |-> clock]
  /\ statObserved' = [s \in StatEls |-> TRUE]
  /\ UNCHANGED <<statTarget, statText, statRuns, statTrigger, statElapsed,
                 statFrameAt, statDone>>

(***************************************************************************)
(* The continuation of init() after its await: registers the listeners and *)
(* observers and starts the animations.  It is a microtask of the          *)
(* constructor's task, so no event precedes it.                            *)
(***************************************************************************)
InitContinue ==
  /\ initPc = "awaiting"
  /\ initPc' = "done"
  /\ isInitialized' = TRUE
  /\ InitializeParticles(offsetSize, rafQueue)
  /\ AnimateStatistics
  /\ setups' = setups + 1
  /\ UNCHANGED <<pendingInits, modulesBuilt, inputVars, menuVars, showVars,
                 domVars, scrollVars, slideVars, fieldVars, thrown, clock,
                 canvasPresent, offsetSize, resizeInThrottle, hidden, phase,
                 loopsAtPause, navVars, revealVars, formVars>>

(***************************************************************************)
(* pauseAnimations / resumeAnimations / updateParticles                    *)
(***************************************************************************)
PauseAnimations ==
  /\ rafQueue' = IF particleAnimationId # 0
                   THEN CancelAnimationFrame(rafQueue, particleAnimationId)
                   ELSE rafQueue
  /\ UNCHANGED <<nextHandle, canvasSize, loopCount, particleSize, animationId,
                 particleAnimationId>>

ResumeAnimations ==
  IF particleAnimationId = 0
    THEN InitializeParticles(offsetSize, rafQueue)
    ELSE UNCHANGED <<rafQueue, nextHandle, canvasSize, loopCount, particleSize,
                     animationId, particleAnimationId>>

UpdateParticles(layout) ==
  IF particleAnimationId # 0
    THEN InitializeParticles(layout,
                             CancelAnimationFrame(rafQueue, particleAnimationId))
    ELSE UNCHANGED <<rafQueue, nextHandle, canvasSize, loopCount, particleSize,
                     animationId, particleAnimationId>>

\* History: a pause is recorded, and the resume that follows it.
NotePause == phase' = "paused" /\ loopsAtPause' = loopCount
NoteResume ==
  /\ phase' = IF phase = "paused" THEN "resumed" ELSE phase
  /\ UNCHANGED loopsAtPause

\* window 'blur'
HandleBlur ==
  /\ initPc = "done"
  /\ PauseAnimations
  /\ NotePause
  /\ UNCHANGED <<extVars, appVars, clock, canvasPresent, offsetSize, resizeInThrottle,
                 hidden, statVars, navVars, revealVars, formVars>>

\* window 'focus'
HandleFocus ==
  /\ initPc = "done"
  /\ particleAnimationId = 0 => CanInitialize
  /\ ResumeAnimations
  /\ NoteResume
  /\ UNCHANGED <<extVars, appVars, clock, canvasPresent, offsetSize, resizeInThrottle,
                 hidden, statVars, navVars, revealVars, formVars>>

\* document 'visibilitychange': document.hidden has flipped.
HandleVisibilityChange ==
  /\ initPc = "done"
  /\ hidden' = ~hidden
  /\ IF hidden'
       THEN PauseAnimations /\ NotePause
       ELSE /\ particleAnimationId = 0 => CanInitialize
            /\ ResumeAnimations /\ NoteResume
  /\ UNCHANGED <<extVars, appVars, clock, canvasPresent, offsetSize, resizeInThrottle,
                 statVars, navVars, revealVars, formVars>>

(***************************************************************************)
(* window 'resize' with the new layout box.  The listeners run in the      *)
(* order they were registered: the throttled handleResize (which calls     *)
(* updateParticles), then the resizeCanvas of every closure created before *)
(* the event.  NavigationModule.handleResize only closes the mobile menu.  *)
(***************************************************************************)
(* NavigationModule: the mobile menu.                                      *)
(***************************************************************************)
BoolString(b) == IF b THEN "true" ELSE "false"

\* toggleMobileMenu()
ToggleMobileMenu ==
  LET isOpen == ~isMenuOpen
  IN  /\ isMenuOpen' = isOpen
      /\ menuActive' = isOpen
      /\ ariaExpanded' = BoolString(isOpen)
      /\ bodyOverflow' = IF isOpen THEN "hidden" ELSE ""

CloseMobileMenuKeepsScrollLock ==
  IF isMenuOpen
    THEN /\ isMenuOpen' = FALSE
         /\ menuActive' = FALSE
         /\ ariaExpanded' = "false"
         /\ UNCHANGED bodyOverflow
    ELSE UNCHANGED menuVars

\* closeMobileMenu()
CloseMobileMenu ==
  IF isMenuOpen
    THEN /\ isMenuOpen' = FALSE
         /\ menuActive' = FALSE
         /\ ariaExpanded' = "false"
         /\ bodyOverflow' = ""
    ELSE UNCHANGED menuVars

\* window.innerWidth > 768: the wide layout is the desktop one.
InnerWidthAbove768(layout) == layout = "wide"

\* NavigationModule.handleResize()
NavigationHandleResize(layout) ==
  IF InnerWidthAbove768(layout) /\ isMenuOpen
    THEN CloseMobileMenu
    ELSE UNCHANGED menuVars

(***************************************************************************)
HandleResize(layout) ==
  /\ initPc = "done"
  /\ offsetSize' = layout
  /\ IF resizeInThrottle
       THEN /\ canvasSize' = IF loopCount > 0 THEN layout ELSE canvasSize
            /\ UNCHANGED <<rafQueue, nextHandle, loopCount, particleSize,
                           animationId, particleAnimationId, resizeInThrottle,
                           menuVars>>
       ELSE /\ particleAnimationId # 0 => CanInitialize
            /\ NavigationHandleResize(layout)
            /\ UpdateParticles(layout)
            /\ resizeInThrottle' = TRUE
  /\ UNCHANGED <<inputVars, initVars, showVars, domVars, scrollVars, slideVars,
                 fieldVars, thrown, appVars, clock, canvasPresent, hidden, phase, loopsAtPause,
                 statVars, navVars, revealVars, formVars>>

\* The throttle's setTimeout(() => inThrottle = false, 100) expires.
ResizeThrottleExpires ==
  /\ resizeInThrottle
  /\ resizeInThrottle' = FALSE
  /\ UNCHANGED <<extVars, appVars, frameVars, canvasPresent, offsetSize, canvasSize,
                 loopCount, particleSize, animationId, particleAnimationId,
                 hidden, phase, loopsAtPause, statVars, navVars, revealVars,
                 formVars>>

(***************************************************************************)
(* animateStatistics: the count-up of one stat element.                    *)
(* Times are multiples of Quantum, so progress = elapsed / duration is the *)
(* fraction ProgressNum / ProgressDen and the arithmetic is exact.         *)
(***************************************************************************)
ProgressDen == duration \div Quantum
\* Math.min(elapsed / duration, 1), as a numerator over ProgressDen
ProgressNum(elapsed) == Min(elapsed, duration) \div Quantum

\* 1 - Math.pow(1 - progress, 4), as a numerator over ProgressDen^4
EaseOutQuartNum(elapsed) ==
  LET r == ProgressDen - ProgressNum(elapsed)
  IN  (ProgressDen * ProgressDen * ProgressDen * ProgressDen) - (r * r * r * r)

CurrentEaseIn(target, elapsed) ==
  LET n == ProgressNum(elapsed)
  IN  (target * (n * n * n * n))
        \div (ProgressDen * ProgressDen * ProgressDen * ProgressDen)

\* Math.floor(target * easeOutQuart)
Current(target, elapsed) ==
  (target * EaseOutQuartNum(elapsed))
    \div (ProgressDen * ProgressDen * ProgressDen * ProgressDen)

\* Mutant of FrameContinues: the loop never meets its exit test.
FrameContinuesAlways(elapsed) == elapsed >= 0

\* if (progress < 1) requestAnimationFrame(animate)
FrameContinues(elapsed) == ProgressNum(elapsed) < ProgressDen

\* stat.textContent once animate(currentTime) has returned
TextAfterFrame(target, elapsed) ==
  IF FrameContinues(elapsed) THEN Current(target, elapsed) ELSE target

\* const elapsed = currentTime - startTime
Elapsed(s, now) == now - statStart[s]

\* Mutant of StatObserverCallback: the observer is not told to unobserve.
StatObserverCallbackKeepsObserving(s, isIntersecting) ==
  /\ initPc = "done"
  /\ statObserved[s]
  /\ IF isIntersecting
       THEN /\ nextHandle <= MaxHandle
            /\ rafQueue' = rafQueue \cup {[id |-> nextHandle, kind |-> "stat", ref |-> s]}
            /\ nextHandle' = nextHandle + 1
            /\ statRuns' = [statRuns EXCEPT ![s] = @ + 1]
            /\ statTrigger' = [statTrigger EXCEPT ![s] = IF @ = -1 THEN clock ELSE @]
            /\ UNCHANGED statObserved
       ELSE UNCHANGED <<rafQueue, nextHandle, statObserved, statRuns, statTrigger>>
  /\ UNCHANGED <<extVars, appVars, clock, particleVars, statTarget, statStart, statText,
                 statElapsed, statFrameAt, statDone, navVars, revealVars,
                 formVars>>

(***************************************************************************)
(* The callback of a stat element's IntersectionObserver, for the entry    *)
(* (s, isIntersecting).  The observer watches one element, so a batch is   *)
(* one entry; the host reports only elements that are observed.            *)
(***************************************************************************)
StatObserverCallback(s, isIntersecting) ==
  /\ initPc = "done"
  /\ statObserved[s]
  /\ IF isIntersecting
       THEN /\ nextHandle <= MaxHandle
            /\ rafQueue' = rafQueue \cup {Callback(nextHandle, "stat", s)}
            /\ nextHandle' = nextHandle + 1
            /\ statObserved' = [statObserved EXCEPT ![s] = FALSE]
            /\ statRuns' = [statRuns EXCEPT ![s] = @ + 1]
            /\ statTrigger' = [statTrigger EXCEPT ![s] = IF @ = -1 THEN clock ELSE @]
       ELSE UNCHANGED <<rafQueue, nextHandle, statObserved, statRuns, statTrigger>>
  /\ UNCHANGED <<extVars, appVars, clock, particleVars, statTarget, statStart, statText,
                 statElapsed, statFrameAt, statDone, navVars, revealVars,
                 formVars>>

(***************************************************************************)
(* A rendering frame, d quanta after the previous one: the host runs every *)
(* pending frame callback, in the order of their handles, with the same    *)
(* timestamp.  A particle closure's animate() updates and draws its        *)
(* particles and requests the next frame; a stat's animate(currentTime)    *)
(* writes the text and requests the next frame while progress < 1.         *)
(***************************************************************************)
Requests(cb, now) ==
  \/ cb.kind = "particle"
  \/ cb.kind = "stat" /\ FrameContinues(Elapsed(cb.ref, now))

RenderFrame(d) ==
  LET now == Min(clock + d * Quantum, MaxClock)
      again == {cb \in rafQueue : Requests(cb, now)}
      newId(cb) == nextHandle + Cardinality({c \in again : c.id < cb.id})
      ran(s) == \E cb \in rafQueue : cb.kind = "stat" /\ cb.ref = s
  IN  /\ initPc = "done"
      /\ nextHandle + Cardinality(again) <= MaxHandle + 1
      /\ clock' = now
      /\ rafQueue' = {Callback(newId(cb), cb.kind, cb.ref) : cb \in again}
      /\ nextHandle' = nextHandle + Cardinality(again)
      /\ animationId' =
           [l \in DOMAIN animationId |->
              IF \E cb \in again : cb.kind = "particle" /\ cb.ref = l
                THEN newId(CHOOSE cb \in again : cb.kind = "particle" /\ cb.ref = l)
                ELSE animationId[l]]
      /\ statText' = [s \in StatEls |->
                        IF ran(s) THEN TextAfterFrame(statTarget[s], Elapsed(s, now))
                                  ELSE statText[s]]
      /\ statElapsed' = [s \in StatEls |->
                           IF ran(s) THEN Elapsed(s, now) ELSE statElapsed[s]]
      /\ statFrameAt' = [s \in StatEls |-> IF ran(s) THEN now ELSE statFrameAt[s]]
      /\ statDone' = [s \in StatEls |->
                        statDone[s] \/ (ran(s) /\ ~FrameContinues(Elapsed(s, now)))]
      /\ UNCHANGED <<extVars, appVars, canvasPresent, offsetSize, canvasSize, loopCount,
                     particleSize, particleAnimationId, resizeInThrottle, hidden,
                     phase, loopsAtPause, statTarget, statStart, statObserved,
                     statRuns, statTrigger, navVars, revealVars, formVars>>

(***************************************************************************)
(* Pages without the other parts.                                          *)
(***************************************************************************)
PageNoStats == PageStatsOf({})
PageNoNav == linkHref = <<>> /\ linkActive = {}
PageNoReveal == classList = <<>> /\ revealTriggers = <<>>

\* The header, the slide buttons and the submit button, as the page's markup
\* has them; the viewport starts at the top.
PageChromeOf(header, play, pause, submit) ==
  /\ headerPresent \in header
  /\ playPresent \in play
  /\ pausePresent \in pause
  /\ submitBtnPresent \in submit
  /\ pageYOffset = 0
  /\ headerScrolled = FALSE
  /\ playDisabled = FALSE
  /\ pauseDisabled \in BOOLEAN
  /\ menuActive = FALSE
  /\ ariaExpanded = "false"
  /\ bodyOverflow = ""

PageChrome ==
  PageChromeOf({TRUE}, {TRUE}, {TRUE}, {TRUE}) /\ pauseDisabled = TRUE

\* No form field is followed and the page has no slide frames.
PagePlain ==
  /\ fieldValue = <<>>
  /\ fieldError = {}
  /\ frameCount = 0
  /\ frameActive = {}
  /\ placeholderActive = {}

\* No particle set is followed.
PageNoField ==
  /\ fieldParticles = <<>>
  /\ surface = [w |-> 0, h |-> 0]
  /\ drawLog = <<>>
  /\ lastFieldOp = "init"
NoAttempt ==
  [n |-> 0, clean |-> FALSE, outcome |-> "none", trace |-> <<>>, holds |-> <<>>,
   since |-> 0]
PageForm ==
  /\ btnState = "default"
  /\ btnDisabled = FALSE
  /\ timers = <<>>
  /\ attempt = NoAttempt

(***************************************************************************)
(* The particle field: a page with (or without) the canvas.                *)
(***************************************************************************)
InitParticles ==
  Constructed /\ PageChrome /\ PagePlain /\ PageNoField /\ PageCanvas /\ PageNoStats /\ PageNoNav /\ PageNoReveal /\ PageForm

NextParticles ==
  \/ InitContinue
  \/ HandleBlur
  \/ HandleFocus
  \/ HandleVisibilityChange
  \/ \E layout \in Sizes : HandleResize(layout)
  \/ ResizeThrottleExpires
  \/ \E d \in 1..2 : RenderFrame(d)

SpecParticles == InitParticles /\ [][NextParticles]_vars

(***************************************************************************)
(* The stat counters: a page with the stat elements and no canvas.         *)
(***************************************************************************)
InitStats ==
  Constructed /\ PageChrome /\ PagePlain /\ PageNoField /\ PageNoCanvas /\ PageStatsOf(Stats) /\ PageNoNav /\ PageNoReveal
    /\ PageForm

NextStats ==
  \/ InitContinue
  \/ \E s \in Stats, b \in BOOLEAN : StatObserverCallback(s, b)
  \/ \E d \in 1..MaxTicks : RenderFrame(d)

SpecStats == InitStats /\ [][NextStats]_vars
FairSpecStats == SpecStats /\ WF_vars(\E d \in 1..MaxTicks : RenderFrame(d))

(***************************************************************************)
(* Properties of the particle field (SpecParticles).                       *)
(***************************************************************************)
ParticleCallbacks == {cb \in rafQueue : cb.kind = "particle"}

\* C1: at most one particle animation loop is active: at most one particle
\* frame callback is pending at any time, whatever initialisations, resizes,
\* pauses and resumes have been handled.
C1_AtMostOneLoop == Cardinality(ParticleCallbacks) <= 1

\* C2: once a pause has been handled and until a resume is handled, no
\* frame callback is pending for a particle closure that existed when the
\* pause was handled (so none of its frames runs any more).
C2_PauseCancelsFrames ==
  phase = "paused" => \A cb \in ParticleCallbacks : cb.ref > loopsAtPause

\* C3: with the canvas present, a pause followed by a resume leaves a frame
\* loop running over a particle set created after the pause.
C3_ResumeRestartsLoop ==
  (canvasPresent /\ phase = "resumed") =>
     /\ loopCount > loopsAtPause
     /\ \E cb \in ParticleCallbacks : cb.ref > loopsAtPause

\* C12: on a page without the canvas every operation of the particle field
\* (initialize, resize, pause, resume, in any order) does nothing: no
\* closure is created, no frame is requested, no handle is stored, the
\* surface is not sized and no error is raised.
C12_NoCanvasNoOps ==
  ~canvasPresent =>
    /\ loopCount = 0
    /\ ParticleCallbacks = {}
    /\ nextHandle = 1
    /\ particleAnimationId = 0
    /\ canvasSize = "default"
    /\ thrown = {}

\* Without a canvas: initialized, resized to another layout box, paused and
\* resumed.
C12_Witness ==
  /\ ~canvasPresent
  /\ initPc = "done"
  /\ resizeInThrottle
  /\ offsetSize = "wide"
  /\ phase = "resumed"

\* The drawing surface has the dimensions of the canvas's layout box.
SurfaceMatchesLayout == canvasSize = offsetSize

\* C15: once the field is initialized, after any sequence of resize events
\* the drawing surface has the dimensions of the layout box, and the
\* particles of every loop still being animated were created for those
\* dimensions.
C15_SurfaceAndParticlesMatchLayout ==
  (canvasPresent /\ initPc = "done") =>
    /\ SurfaceMatchesLayout
    /\ \A cb \in ParticleCallbacks : particleSize[cb.ref] = canvasSize

(***************************************************************************)
(* Properties of the stat counters (SpecStats, FairSpecStats).             *)
(***************************************************************************)
StatCallbacks(s) == {cb \in rafQueue : cb.kind = "stat" /\ cb.ref = s}

\* C4: the count-up of a stat element is started at most once, and at most
\* one of its frame callbacks is pending, whatever entries are reported.
C4_CountUpStartsOnce ==
  \A s \in StatEls : statRuns[s] <= 1 /\ Cardinality(StatCallbacks(s)) <= 1

\* C4 witness: an element whose count-up was started and has finished, and
\* which its observer no longer observes.
C4_Witness ==
  \E s \in StatEls : statRuns[s] = 1 /\ statDone[s] /\ ~statObserved[s]

CountUpFinished(s) ==
  statDone[s] /\ statText[s] = statTarget[s] /\ StatCallbacks(s) = {}

\* C5: with frames being delivered, a started count-up reaches progress 1;
\* from then on the text is exactly the target and no frame is pending for
\* the element.
C5_CountUpTerminates ==
  /\ \A s \in Stats : (statRuns[s] > 0) ~> CountUpFinished(s)
  /\ [](\A s \in Stats : statDone[s] => CountUpFinished(s))

\* C5 witness: a count-up to 100 that ran frames below progress 1 and ended
\* showing 100.
C5_Witness ==
  \E s \in StatEls :
     /\ statTarget[s] = 100 /\ statText[s] = 100 /\ statDone[s]
     /\ statTrigger[s] < duration /\ StatCallbacks(s) = {}

\* C6: the elapsed time of every count-up frame is measured from the first
\* intersection, so a count-up finishes no earlier than `duration` after it.
\* (Frames at the saturated clock are left out: their time is not exact.)
C6_ElapsedFromFirstIntersection ==
  \A s \in StatEls :
     (statFrameAt[s] # -1 /\ statFrameAt[s] < MaxClock) =>
        /\ statElapsed[s] = statFrameAt[s] - statTrigger[s]
        /\ statDone[s] => statFrameAt[s] - statTrigger[s] >= duration

\* v = floor(target * (1 - (1 - p)^4)) for p = clamp(t / duration, 0, 1),
\* with t a multiple of Quantum: v <= target * (1 - (1 - p)^4) < v + 1.
IsEasedFloor(v, target, t) ==
  LET pn == IF t >= duration THEN ProgressDen
            ELSE IF t <= 0 THEN 0 ELSE t \div Quantum
      r == ProgressDen - pn
      d4 == ProgressDen * ProgressDen * ProgressDen * ProgressDen
      num == target * (d4 - r * r * r * r)
  IN  v * d4 <= num /\ num < (v + 1) * d4

\* C19: every value a count-up frame displays is
\* floor(target * (1 - (1 - p)^4)) for p = clamp(t / 2000, 0, 1), t being
\* the elapsed time the frame computed; it lies in 0..target and never
\* decreases from one frame to the next.
C19_EasedValueBoundedMonotone ==
  /\ [](\A s \in StatEls :
          statElapsed[s] # -1 =>
            /\ IsEasedFloor(statText[s], statTarget[s], statElapsed[s])
            /\ statText[s] \in 0..statTarget[s])
  /\ [][\A s \in StatEls :
          statElapsed[s] # -1 => statText'[s] >= statText[s]]_vars

\* A counter in mid count shows a value strictly between 0 and its target,
\* three quarters of the duration after its start time.
C19_Witness ==
  \E s \in StatEls :
    /\ statElapsed[s] = 3 * Quantum
    /\ statText[s] \in 1..(statTarget[s] - 1)
    /\ ~statDone[s]

(***************************************************************************)
(* Navigation links and the section watcher.                               *)
(* An href is the pair of its first character and the rest, so that        *)
(* `#${sectionId}` and href.substring(1) are computed, not assumed.        *)
(***************************************************************************)
Hash(id) == <<"#", id>>
Substring1(href) == href[2]
Hrefs == {Hash("home"), Hash("history"), Hash("faq"), <<"/", "about">>}

PageNav ==
  /\ linkHref \in [Links -> Hrefs]
  /\ linkActive \in SUBSET Links

Range(f) == {f[i] : i \in DOMAIN f}

\* Mutant of UpdateActiveLink: marks the matching links, clears no other.
UpdateActiveLinkAddsOnly(active, sectionId) ==
  active \cup {l \in DOMAIN linkHref : linkHref[l] = Hash(sectionId)}

\* updateActiveLink(sectionId): every link's marker is toggled to
\* (href === `#${sectionId}`); the result is the new set of active links.
UpdateActiveLink(active, sectionId) ==
  {l \in DOMAIN linkHref : linkHref[l] = Hash(sectionId)}

\* trackEvent(category, action, label, value): the entry pushed onto events.
TrackEvent(evs, category, action, label, value) ==
  Append(evs, <<category, action, label, value>>)

\* Mutant of SectionEntry: the isIntersecting test is missing.
SectionEntryUnguarded(st, entry) ==
  [section |-> entry.target,
   active  |-> UpdateActiveLink(st.active, entry.target),
   events  |-> TrackEvent(st.events, "Section", "View", entry.target, 0),
   arg     |-> entry.target]

\* The body of handleSectionIntersection's forEach, for one entry.
SectionEntry(st, entry) ==
  IF entry.isIntersecting
    THEN [section |-> entry.target,
          active  |-> UpdateActiveLink(st.active, entry.target),
          events  |-> TrackEvent(st.events, "Section", "View", entry.target, 0),
          arg     |-> entry.target]
    ELSE st

RECURSIVE SectionFold(_, _)
SectionFold(st, entries) ==
  IF entries = <<>> THEN st
  ELSE SectionFold(SectionEntry(st, Head(entries)), Tail(entries))

\* Batches: entries for distinct observed sections, in any order.
SectionEntries == [target : Sections, isIntersecting : BOOLEAN]
SectionBatches ==
  {b \in UNION {[1..n -> SectionEntries] : n \in 1..Cardinality(Sections)} :
     \A i, j \in DOMAIN b : i # j => b[i].target # b[j].target}

Intersecting(b) == {i \in DOMAIN b : b[i].isIntersecting}

\* handleSectionIntersection(entries)
HandleSectionIntersection(batch) ==
  LET st == SectionFold([section |-> currentSection, active |-> linkActive,
                         events |-> events, arg |-> lastLinkArg], batch)
  IN  /\ initPc = "done"
      /\ Len(events) + Cardinality(Intersecting(batch)) <= MaxEvents
      /\ currentSection' = st.section
      /\ linkActive' = st.active
      /\ events' = st.events
      /\ lastLinkArg' = st.arg
      /\ lastBatch' = batch
      /\ prevSection' = currentSection
      /\ UNCHANGED <<extVars, appVars, frameVars, particleVars, statVars, linkHref,
                     revealVars, formVars>>

\* handleNavClick(link): a click on a navigation link.  document.getElementById
\* finds the sections; scrollToSection only moves the viewport and
\* closeMobileMenu only touches the menu.
HandleNavClick(link) ==
  LET targetId == Substring1(linkHref[link])
  IN  /\ IF targetId \in Sections
           THEN IF headerPresent
                  THEN /\ Len(events) < MaxEvents
                       /\ linkActive' = UpdateActiveLink(linkActive, targetId)
                       /\ events' = TrackEvent(events, "Navigation", "Click",
                                               targetId, 0)
                       /\ lastLinkArg' = targetId
                       /\ CloseMobileMenu
                       /\ UNCHANGED thrown
                  ELSE \* scrollToSection reads .offsetHeight of null
                       /\ thrown' = thrown \cup {"scrollToSection"}
                       /\ UNCHANGED <<linkActive, events, lastLinkArg, menuVars>>
           ELSE UNCHANGED <<linkActive, events, lastLinkArg, thrown, menuVars>>
      /\ UNCHANGED <<inputVars, initVars, showVars, domVars, scrollVars, slideVars, fieldVars, appVars,
                     frameVars, particleVars, statVars, currentSection,
                     linkHref, lastBatch, prevSection, revealVars, formVars>>

InitSections ==
  Constructed /\ PageChrome /\ PagePlain /\ PageNoField /\ PageNoCanvas /\ PageNoStats /\ PageNav /\ PageNoReveal /\ PageForm

NextSections ==
  \/ InitContinue
  \/ \E b \in SectionBatches : HandleSectionIntersection(b)
  \/ \E l \in Links : HandleNavClick(l)

SpecSections == InitSections /\ [][NextSections]_vars

LinksTo(sectionId) == {l \in DOMAIN linkHref : linkHref[l] = Hash(sectionId)}

\* C8 as stated: after every call of updateActiveLink(sectionId) exactly one
\* link is active, the one whose href is #sectionId.
C8_ExactlyOneActive ==
  lastLinkArg # "" =>
     /\ Cardinality(linkActive) = 1
     /\ linkActive = LinksTo(lastLinkArg)

\* C8 as amended: after every call of updateActiveLink(sectionId) the active
\* links are exactly the links whose href is #sectionId (one link when the
\* page has one such link, none when it has none).
C8_ActiveAreLinksToSection ==
  lastLinkArg # "" =>
     /\ linkActive = LinksTo(lastLinkArg)
     /\ Cardinality(LinksTo(lastLinkArg)) = 1 => Cardinality(linkActive) = 1

\* C8 witness: a second call moved the marker from one link to another.
C8_Witness ==
  /\ Len(events) >= 2
  /\ lastLinkArg = "history"
  /\ events[1][3] = "home"
  /\ Cardinality(linkActive) = 1
  /\ linkActive = LinksTo("history")
  /\ LinksTo("home") # {}

\* The section the claim expects after a batch.
LastIntersecting(batch, before) ==
  IF Intersecting(batch) = {} THEN before
  ELSE batch[CHOOSE i \in Intersecting(batch) :
               \A j \in Intersecting(batch) : j <= i].target

\* C9: after the section watcher has processed a batch, currentSection is
\* the id of the last intersecting entry of the batch, and is what it was
\* before when the batch has no intersecting entry.
C9_LastIntersectingWins ==
  lastBatch # <<>> => currentSection = LastIntersecting(lastBatch, prevSection)

\* C9 witness: two sections intersect in one batch, followed by an entry
\* that does not intersect; the second of the two is current.
C9_Witness ==
  /\ Len(lastBatch) = 3
  /\ lastBatch[1].isIntersecting /\ lastBatch[2].isIntersecting
  /\ ~lastBatch[3].isIntersecting
  /\ currentSection = lastBatch[2].target
  /\ prevSection = lastBatch[3].target

(***************************************************************************)
(* The reveal watcher.  A classList is an ordered set of class names.      *)
(***************************************************************************)
\* classList.add(c): adding a class that is present changes nothing.
ClassAddAppends(list, c) == Append(list, c)

\* classList.add(c): a token list holds each token once
ClassAdd(list, c) == IF c \in Range(list) THEN list ELSE Append(list, c)

\* if (classList.contains(kind)) classList.add(marker)
AddIfKind(list, kind, marker) ==
  IF kind \in Range(list) THEN ClassAdd(list, marker) ELSE list

\* The classes an intersecting entry gives its target.
Reveal(list) ==
  AddIfKind(
    AddIfKind(
      AddIfKind(ClassAdd(list, "fade-in-up--visible"),
                "timeline__item", "timeline__item--visible"),
      "story-card", "story-card--visible"),
    "prediction-card", "prediction-card--visible")

\* Mutant of RevealEntry: the marker follows the entry (a toggle).
RevealEntryToggles(list, isIntersecting) ==
  IF isIntersecting THEN Reveal(list)
  ELSE SelectSeq(list, LAMBDA x : x # "fade-in-up--visible")

\* The body of handleAnimationIntersection's forEach, for one entry.
RevealEntry(list, isIntersecting) ==
  IF isIntersecting THEN Reveal(list) ELSE list

RECURSIVE RevealFold(_, _)
RevealFold(lists, entries) ==
  IF entries = <<>> THEN lists
  ELSE LET e == Head(entries)
       IN  RevealFold([lists EXCEPT ![e.target] = RevealEntry(@, e.isIntersecting)],
                      Tail(entries))

\* The markup: every observed element matches the watcher's selector, that
\* is, carries one or two of the four kinds.
KindLists ==
  {l \in UNION {[1..n -> Kinds] : n \in 1..2} :
     \A i, j \in DOMAIN l : i # j => l[i] # l[j]}
PageReveal ==
  classList \in [Els -> KindLists] /\ revealTriggers = [e \in Els |-> 0]

RevealEntries == [target : Els, isIntersecting : BOOLEAN]
RevealBatches ==
  {b \in UNION {[1..n -> RevealEntries] : n \in 1..Cardinality(Els)} :
     \A i, j \in DOMAIN b : i # j => b[i].target # b[j].target}

\* The batch holds an intersecting entry for element e.
TriggeredIn(batch, e) ==
  \E i \in DOMAIN batch : batch[i].target = e /\ batch[i].isIntersecting

\* handleAnimationIntersection(entries)
HandleAnimationIntersection(batch) ==
  /\ initPc = "done"
  /\ classList' = RevealFold(classList, batch)
  /\ lastRevealBatch' = batch
  /\ revealTriggers' =
       [e \in Els |->
          IF TriggeredIn(batch, e)
            THEN Min(revealTriggers[e] + 1, MaxTriggers)
            ELSE revealTriggers[e]]
  /\ UNCHANGED <<extVars, appVars, frameVars, particleVars, statVars, navVars, formVars>>

InitReveal ==
  Constructed /\ PageChrome /\ PagePlain /\ PageNoField /\ PageNoCanvas /\ PageNoStats /\ PageNoNav /\ PageReveal /\ PageForm

NextReveal ==
  \/ InitContinue
  \/ \E b \in RevealBatches : HandleAnimationIntersection(b)

SpecReveal == InitReveal /\ [][NextReveal]_vars

Revealed(e) == "fade-in-up--visible" \in Range(classList[e])

\* C10: a revealed element is never re-hidden: whatever batch is handled
\* next, it keeps every class it carries (the reveal markers among them).
C10_NeverRehidden ==
  [][\A e \in Els : Revealed(e) => Range(classList[e]) \subseteq Range(classList'[e])]_vars

\* C10 witness: a revealed element for which the last batch reported a
\* non-intersecting entry, still carrying its markers.
C10_Witness ==
  \E e \in Els :
     /\ Revealed(e)
     /\ "story-card--visible" \in Range(classList[e])
     /\ \E i \in DOMAIN lastRevealBatch :
           lastRevealBatch[i].target = e /\ ~lastRevealBatch[i].isIntersecting

NoDuplicates(list) ==
  \A i, j \in DOMAIN list : list[i] = list[j] => i = j

\* C11: the reveal trigger is idempotent: handling an intersecting entry for
\* an element that has been revealed before leaves the element's class list
\* exactly as the first trigger left it, and no class list ever holds a
\* token twice.
C11_RevealIdempotent ==
  /\ [][\A e \in Els :
          (revealTriggers[e] >= 1 /\ TriggeredIn(lastRevealBatch', e))
            => classList'[e] = classList[e]]_vars
  /\ [](\A e \in Els : NoDuplicates(classList[e]))

\* An element with kind-specific markers has been triggered a second time.
C11_Witness ==
  \E e \in Els :
    /\ revealTriggers[e] >= 2
    /\ TriggeredIn(lastRevealBatch, e)
    /\ Revealed(e)
    /\ Len(classList[e]) >= 3

(***************************************************************************)
(* The contact form.  `timers` holds the pending setTimeout callbacks in   *)
(* the order they were set, each with the time left; the submission of     *)
(* handleSubmit resumes when the timer of its submitForm fires.            *)
(*                                                                         *)
(* `attempt` records the latest submission: its number, whether it started *)
(* from the idle form (default state, no timer pending), how it ended, the *)
(* states setSubmitState was given since, how long each earlier state was  *)
(* held, and the time since the last of them.                              *)
(***************************************************************************)
\* Mutant of DisabledIn: the error case leaves the button disabled.
DisabledInErrorToo(state) == state \in {"loading", "success", "error"}

\* setSubmitState(state): the value given to button.disabled.
DisabledIn(state) == state \in {"loading", "success"}

Timer(kind, left) == [kind |-> kind, left |-> left]
RemoveAt(seq, i) == SubSeq(seq, 1, i - 1) \o SubSeq(seq, i + 1, Len(seq))

\* History: setSubmitState(state) is noted in the latest attempt.
Noted(a, state) ==
  [a EXCEPT !.trace = Append(@, state), !.holds = Append(@, a.since), !.since = 0]

\* handleSubmit once validateForm() has returned isValid: the button and the
\* simulated request.
StartSubmission(isValid) ==
  IF ~isValid
    THEN UNCHANGED <<formVars, thrown>>
    ELSE IF ~submitBtnPresent
      THEN \* submitButton.querySelector on null, before the try block
           /\ thrown' = thrown \cup {"handleSubmit"}
           /\ UNCHANGED formVars
      ELSE /\ attempt.n < MaxSubmits
           /\ btnState' = "loading"
           /\ btnDisabled' = DisabledIn("loading")
           /\ timers' = Append(timers, Timer("submit", submitDelay))
           /\ attempt' = [n |-> attempt.n + 1,
                          clean |-> (btnState = "default" /\ timers = <<>>),
                          outcome |-> "pending",
                          trace |-> <<"loading">>,
                          holds |-> <<>>,
                          since |-> 0]
           /\ UNCHANGED thrown

\* form 'submit', with the result of validateForm() where the fields are not
\* followed.  A disabled submit button submits nothing, so the event needs
\* the button enabled; a form without a submit button is submitted
\* implicitly from its text field.
HandleSubmit(isValid) ==
  /\ initPc = "done"
  /\ submitBtnPresent => ~btnDisabled
  /\ StartSubmission(isValid)
  /\ UNCHANGED <<moreVars, domVars, scrollVars, slideVars, fieldVars, appVars, frameVars,
                 particleVars, statVars, navVars, revealVars>>

\* The timer that fires next: the oldest one that is due.
DueTimer ==
  CHOOSE i \in DOMAIN timers :
    timers[i].left = 0 /\ \A j \in 1..(i - 1) : timers[j].left # 0

\* submitForm's timer fires: the promise settles (Math.random() decides)
\* and handleSubmit continues after its await, in the try or in the catch.
SubmitSettles(success) ==
  LET state == IF success THEN "success" ELSE "error"
  IN  /\ \E i \in DOMAIN timers : timers[i].left = 0
      /\ timers[DueTimer].kind = "submit"
      /\ btnState' = state
      /\ btnDisabled' = DisabledIn(state)
      /\ events' = TrackEvent(events, "Form", "Submit", "contact",
                              IF success THEN 1 ELSE 0)
      /\ timers' = Append(RemoveAt(timers, DueTimer), Timer("reset", resetDelay))
      /\ attempt' = [Noted(attempt, state) EXCEPT
                       !.outcome = IF @ = "pending" THEN state ELSE @]
      /\ fieldValue' = IF success
                         THEN [f \in DOMAIN fieldValue |-> <<>>]   \* form.reset()
                         ELSE fieldValue
      /\ UNCHANGED <<fieldError, lastFormOp, menuVars, initVars, showVars, domVars, scrollVars,
                     slideVars, fieldVars, thrown, appVars, frameVars,
                     particleVars, statVars, currentSection, linkHref,
                     linkActive, lastBatch, prevSection, lastLinkArg,
                     revealVars>>

\* The reset timer of a settled submission fires: setSubmitState('default').
ResetFires ==
  /\ \E i \in DOMAIN timers : timers[i].left = 0
  /\ timers[DueTimer].kind = "reset"
  /\ btnState' = "default"
  /\ btnDisabled' = DisabledIn("default")
  /\ timers' = RemoveAt(timers, DueTimer)
  /\ attempt' = Noted(attempt, "default")
  /\ UNCHANGED <<extVars, appVars, frameVars, particleVars, statVars, navVars, revealVars>>

\* Time passes, up to the next timer that is due.
FormTick ==
  /\ timers # <<>>
  /\ \A i \in DOMAIN timers : timers[i].left > 0
  /\ timers' = [i \in DOMAIN timers |->
                  Timer(timers[i].kind, timers[i].left - FormQuantum)]
  /\ attempt' = [attempt EXCEPT !.since = @ + FormQuantum]
  /\ UNCHANGED <<extVars, btnState, btnDisabled, appVars, frameVars, particleVars,
                 statVars, navVars, revealVars>>

InitForm ==
  Constructed /\ PageChrome /\ PagePlain /\ PageNoField /\ PageNoCanvas /\ PageNoStats /\ PageNoNav /\ PageNoReveal /\ PageForm

NextForm ==
  \/ InitContinue
  \/ \E v \in BOOLEAN : HandleSubmit(v)
  \/ \E ok \in BOOLEAN : SubmitSettles(ok)
  \/ ResetFires
  \/ FormTick

SpecForm == InitForm /\ [][NextForm]_vars

SubmitsInFlight == {i \in DOMAIN timers : timers[i].kind = "submit"}
ResetsPending == {i \in DOMAIN timers : timers[i].kind = "reset"}

C20_DisabledWhileInFlight ==
  /\ SubmitsInFlight # {} => btnDisabled
  /\ Cardinality(SubmitsInFlight) <= 1

(***************************************************************************)
(* Handlers that look their element up when they run: the scroll handler   *)
(* (the header), nav clicks (the header again, in scrollToSection), the    *)
(* slide buttons and the form's submit.  A lookup that finds nothing       *)
(* yields null; reading a property of null throws a TypeError, which ends  *)
(* the handler where it stands.                                            *)
(***************************************************************************)
scrollThreshold == 100                    \* config.scrollThreshold

ScrollOffsets == {0, scrollThreshold, scrollThreshold + 1}

\* handleScroll()
HandleScroll ==
  /\ scrollPosition' = pageYOffset'
  /\ IF headerPresent
       THEN /\ headerScrolled' = (pageYOffset' > scrollThreshold)
            /\ UNCHANGED thrown
       ELSE \* header.classList on null
            /\ thrown' = thrown \cup {"handleScroll"}
            /\ UNCHANGED headerScrolled

\* window 'scroll' at offset y, through throttledScrollHandler.  A handler
\* that throws leaves throttle() before inThrottle is set.
ScrollEvent(y) ==
  /\ initPc = "done"
  /\ pageYOffset' = y
  /\ IF scrollInThrottle
       THEN UNCHANGED <<scrollPosition, headerScrolled, scrollInThrottle, thrown>>
       ELSE /\ HandleScroll
            /\ scrollInThrottle' = headerPresent
  /\ UNCHANGED <<moreVars, domVars, slideVars, fieldVars, appVars, frameVars,
                 particleVars, statVars, navVars, revealVars, formVars>>

\* The timer of throttledScrollHandler fires.
ScrollThrottleExpires ==
  /\ scrollInThrottle
  /\ scrollInThrottle' = FALSE
  /\ UNCHANGED <<moreVars, domVars, pageYOffset, scrollPosition, headerScrolled,
                 slideVars, fieldVars, thrown, appVars, frameVars,
                 particleVars, statVars, navVars, revealVars, formVars>>

\* playAnimation()
PlayAnimation ==
  IF isPlaying
    THEN UNCHANGED <<slideVars, thrown, events>>
    ELSE /\ isPlaying' = TRUE
         /\ animationPlaying' = TRUE
         /\ IF ~playPresent
              THEN \* playButton.disabled on null
                   /\ thrown' = thrown \cup {"playAnimation"}
                   /\ UNCHANGED <<playDisabled, pauseDisabled, intervals, events>>
              ELSE /\ playDisabled' = TRUE
                   /\ IF pausePresent
                        THEN /\ Len(events) < MaxEvents
                             /\ pauseDisabled' = FALSE
                             /\ intervals' = intervals + 1
                             /\ events' = TrackEvent(events, "Animation", "Play",
                                                     "Educational Simulation", 0)
                             /\ UNCHANGED thrown
                        ELSE \* pauseButton.disabled on null
                             /\ thrown' = thrown \cup {"playAnimation"}
                             /\ UNCHANGED <<pauseDisabled, intervals, events>>

\* pauseAnimation()
PauseAnimation ==
  IF ~isPlaying
    THEN UNCHANGED <<slideVars, thrown, events>>
    ELSE /\ isPlaying' = FALSE
         /\ animationPlaying' = FALSE
         /\ IF ~playPresent
              THEN \* playButton.disabled on null
                   /\ thrown' = thrown \cup {"pauseAnimation"}
                   /\ UNCHANGED <<playDisabled, pauseDisabled, intervals, events>>
              ELSE /\ playDisabled' = FALSE
                   /\ IF pausePresent
                        THEN /\ Len(events) < MaxEvents
                             /\ pauseDisabled' = TRUE
                             /\ intervals' = IF intervals > 0 THEN intervals - 1 ELSE 0
                             /\ events' = TrackEvent(events, "Animation", "Pause",
                                                     "Educational Simulation", 0)
                             /\ UNCHANGED thrown
                        ELSE \* pauseButton.disabled on null
                             /\ thrown' = thrown \cup {"pauseAnimation"}
                             /\ UNCHANGED <<pauseDisabled, intervals, events>>

slideRest == <<domVars, scrollVars, fieldVars, appVars, frameVars, particleVars,
               statVars, currentSection, linkHref, linkActive, lastBatch,
               prevSection, lastLinkArg, revealVars, formVars>>

\* click on #animation-play
PlayClick ==
  /\ initPc = "done"
  /\ playPresent /\ ~playDisabled
  /\ PlayAnimation
  /\ UNCHANGED <<moreVars, slideRest>>

\* click on #animation-pause
PauseClick ==
  /\ initPc = "done"
  /\ pausePresent /\ ~pauseDisabled
  /\ PauseAnimation
  /\ UNCHANGED <<moreVars, slideRest>>

\* A page with two navigation links and a form; its header, slide buttons
\* and submit button may each be missing.
PageDom ==
  /\ PageChromeOf(BOOLEAN, BOOLEAN, BOOLEAN, BOOLEAN)
  /\ linkHref = [l \in Links |-> IF l = "l1" THEN Hash("home") ELSE Hash("history")]
  /\ linkActive = {}

InitDom ==
  Constructed /\ PageDom /\ PagePlain /\ PageNoField /\ PageNoCanvas /\ PageNoStats
    /\ PageNoReveal /\ PageForm

NextDom ==
  \/ InitContinue
  \/ \E y \in ScrollOffsets : ScrollEvent(y)
  \/ ScrollThrottleExpires
  \/ \E l \in Links : HandleNavClick(l)
  \/ PlayClick
  \/ PauseClick
  \/ \E v \in BOOLEAN : HandleSubmit(v)

SpecDom == InitDom /\ [][NextDom]_vars

\* C13: with the header, a slide button or the submit button missing, a
\* scroll event, a nav click, a play or pause click and a form submission
\* all complete without raising an error.
C13_MissingTargetsAreSilent == thrown = {}

(***************************************************************************)
(* One particle set: the `particles` array of one initializeParticles      *)
(* closure, the canvas dimensions its update() reads, and the canvas       *)
(* operations of its animate().  Lengths are in quarter pixels, the        *)
(* largest velocity component (Math.random() - 0.5) * 0.5 can take, so     *)
(* positions and velocities are integers.  A particle's size and opacity   *)
(* do not influence what is drawn where and are left out.                  *)
(***************************************************************************)
MaxParticles == 2     \* particles in the followed set
UnitsPerPixel == 4    \* 1 / 0.25
maxDistance == 100    \* drawConnections: const maxDistance (pixels)

Velocities == {-1, 0, 1}

Particle(x, y, vx, vy) == [x |-> x, y |-> y, vx |-> vx, vy |-> vy]

UpdateAtEdge(p, s) ==
  LET x == p.x + p.vx
      y == p.y + p.vy
  IN  Particle(x, y,
               IF x <= 0 \/ x >= s.w THEN -p.vx ELSE p.vx,
               IF y <= 0 \/ y >= s.h THEN -p.vy ELSE p.vy)

\* Particle.update() on a canvas of width s.w and height s.h
Update(p, s) ==
  LET x == p.x + p.vx
      y == p.y + p.vy
  IN  Particle(x, y,
               IF x < 0 \/ x > s.w THEN -p.vx ELSE p.vx,
               IF y < 0 \/ y > s.h THEN -p.vy ELSE p.vy)

Op(op, i, j) == [op |-> op, i |-> i, j |-> j]

ParticleOpsDrawFirst(i) == <<Op("arc", i, 0), Op("update", i, 0)>>

\* the body of animate()'s forEach for particle i: update(), then draw()
ParticleOps(i) == <<Op("update", i, 0), Op("arc", i, 0)>>

\* particles.forEach(...) from index i on: the particles and the operations
RECURSIVE ForEachParticle(_, _, _)
ForEachParticle(ps, s, i) ==
  IF i > Len(ps)
    THEN [particles |-> ps, log |-> <<>>]
    ELSE LET rest == ForEachParticle([ps EXCEPT ![i] = Update(ps[i], s)], s, i + 1)
         IN  [particles |-> rest.particles, log |-> ParticleOps(i) \o rest.log]

\* dx * dx + dy * dy
Distance2(p, q) == (p.x - q.x) * (p.x - q.x) + (p.y - q.y) * (p.y - q.y)

Threshold2 == (maxDistance * UnitsPerPixel) * (maxDistance * UnitsPerPixel)

ConnectsInclusive(p, q) == Distance2(p, q) <= Threshold2

\* Math.sqrt(dx * dx + dy * dy) < maxDistance
Connects(p, q) == Distance2(p, q) < Threshold2

\* drawConnections: the loops over i and j > i, from (i, j) on
RECURSIVE DrawConnections(_, _, _)
DrawConnections(ps, i, j) ==
  IF i > Len(ps) THEN <<>>
  ELSE IF j > Len(ps) THEN DrawConnections(ps, i + 1, i + 2)
  ELSE (IF Connects(ps[i], ps[j]) THEN <<Op("line", i, j)>> ELSE <<>>)
         \o DrawConnections(ps, i, j + 1)

\* One run of animate() for the followed closure.
FieldFrame ==
  LET each == ForEachParticle(fieldParticles, surface, 1)
  IN  /\ fieldParticles' = each.particles
      /\ drawLog' = <<Op("clearRect", 0, 0)>> \o each.log
                       \o DrawConnections(each.particles, 1, 2)
      /\ lastFieldOp' = "frame"
      /\ UNCHANGED <<moreVars, surface, domVars, scrollVars, slideVars, thrown, appVars,
                     frameVars, particleVars, statVars, navVars, revealVars,
                     formVars>>

\* A window resize reaches resizeCanvas while the followed closure keeps
\* its particles: the event fell into the throttle window of handleResize,
\* or the closure is an earlier one whose loop still runs.  The closure's
\* first frame is part of initializeParticles and precedes every event.
FieldResize(s) ==
  /\ lastFieldOp # "init"
  /\ surface' = s
  /\ lastFieldOp' = "resize"
  /\ UNCHANGED <<moreVars, fieldParticles, drawLog, domVars, scrollVars, slideVars,
                 thrown, appVars, frameVars, particleVars, statVars, navVars,
                 revealVars, formVars>>

\* Particle sets created on canvas s: positions from xs and ys, any velocity.
ParticlesOn(xs, ys, counts) ==
  UNION {[1..n -> {Particle(x, y, vx, vy) :
                     x \in xs, y \in ys, vx \in Velocities, vy \in Velocities}]
           : n \in counts}

PageNothingElse ==
  PageChrome /\ PagePlain /\ PageNoCanvas /\ PageNoStats /\ PageNoNav /\ PageNoReveal /\ PageForm

\* A 61 x 81 pixel canvas with particles near two opposite corners, which
\* are exactly maxDistance apart.
DrawSurface == [w |-> 61 * UnitsPerPixel, h |-> 81 * UnitsPerPixel]

InitDraw ==
  /\ Constructed /\ PageNothingElse
  /\ surface = DrawSurface
  /\ fieldParticles \in ParticlesOn({0, 60 * UnitsPerPixel},
                                    {0, 80 * UnitsPerPixel}, 0..MaxParticles)
  /\ drawLog = <<>>
  /\ lastFieldOp = "init"

\* The closure's first frame: the call animate() that ends
\* initializeParticles.
NextDraw == lastFieldOp = "init" /\ FieldFrame

SpecDraw == InitDraw /\ [][NextDraw]_vars

\* Canvases of one and two pixels, so that a particle meets every edge.
MotionSurfaces == {[w |-> k * UnitsPerPixel, h |-> k * UnitsPerPixel] : k \in 1..2}

InitMotion ==
  /\ Constructed /\ PageNothingElse
  /\ surface \in MotionSurfaces
  /\ fieldParticles \in ParticlesOn(0..(surface.w - 1), 0..(surface.h - 1), {1})
  /\ drawLog = <<>>
  /\ lastFieldOp = "init"

NextMotion ==
  \/ FieldFrame
  \/ \E s \in MotionSurfaces : FieldResize(s)

SpecMotion == InitMotion /\ [][NextMotion]_vars

(***************************************************************************)
(* Properties of one frame                                                 *)
(***************************************************************************)
OpsOf(kind) == {k \in DOMAIN drawLog : drawLog[k].op = kind}
CountOp(op, i, j) == Cardinality({k \in DOMAIN drawLog : drawLog[k] = Op(op, i, j)})

\* C14: whatever the number n of particles, one frame draws exactly n
\* circles, one per particle, and exactly one line for each unordered pair
\* of particles closer than maxDistance and none for any other pair, hence
\* at most n(n-1)/2 lines; with no particle it draws nothing.
C14_CirclesAndLines ==
  lastFieldOp = "frame" =>
    LET n == Len(fieldParticles)
    IN  /\ Cardinality(OpsOf("arc")) = n
        /\ \A i \in 1..n : CountOp("arc", i, 0) = 1
        /\ \A i, j \in 1..n :
             i < j => CountOp("line", i, j) =
                        IF Distance2(fieldParticles[i], fieldParticles[j])
                             < Threshold2
                          THEN 1 ELSE 0
        /\ \A k \in OpsOf("line") :
             /\ drawLog[k].i \in 1..n /\ drawLog[k].j \in 1..n
             /\ drawLog[k].i < drawLog[k].j
        /\ 2 * Cardinality(OpsOf("line")) <= n * (n - 1)
        /\ n = 0 => drawLog = <<Op("clearRect", 0, 0)>>

\* A frame has drawn two particles that are exactly maxDistance apart, with
\* no line between them.
C14_Witness ==
  /\ lastFieldOp = "frame"
  /\ \E i, j \in DOMAIN fieldParticles :
       /\ i < j
       /\ Distance2(fieldParticles[i], fieldParticles[j]) = Threshold2
       /\ CountOp("line", i, j) = 0
       /\ CountOp("arc", i, 0) = 1 /\ CountOp("arc", j, 0) = 1

\* C16 as stated: within one frame every particle's position update comes
\* before anything of that frame is drawn.
C16_TickPrecedesRender ==
  lastFieldOp = "frame" =>
    \A u \in OpsOf("update") :
      \A d \in OpsOf("arc") \cup OpsOf("line") : u < d

\* C16, amended: within one frame each particle's position update comes
\* before that particle's circle is drawn, and every particle has been
\* updated before the first connective line is drawn; the surface is
\* cleared first.
C16_UpdatePrecedesOwnDraw ==
  lastFieldOp = "frame" =>
    /\ drawLog[1] = Op("clearRect", 0, 0)
    /\ \A i \in DOMAIN fieldParticles :
         \E u \in OpsOf("update"), d \in OpsOf("arc") :
           /\ drawLog[u].i = i /\ drawLog[d].i = i
           /\ u < d
    /\ \A u \in OpsOf("update") : \A l \in OpsOf("line") : u < l

\* A frame of two particles with a line between them: the first circle is
\* drawn before the second particle is updated.
C16_Witness ==
  /\ lastFieldOp = "frame"
  /\ Len(fieldParticles) = 2
  /\ OpsOf("line") # {}
  /\ \E d \in OpsOf("arc"), u \in OpsOf("update") : d < u

(***************************************************************************)
(* Properties of a particle's motion                                       *)
(***************************************************************************)
OutsideX(p, s) == p.x < 0 \/ p.x > s.w
OutsideY(p, s) == p.y < 0 \/ p.y > s.h

\* C17: a tick advances the position by the velocity and then negates a
\* velocity component exactly when the advanced position lies beyond a
\* bound of that axis (x < 0 or x > width; y < 0 or y > height): a
\* particle inside keeps both components, and crossing on one axis leaves
\* the other component alone.
C17_ReflectsExactlyOnCrossing ==
  [][lastFieldOp' = "frame" =>
       \A i \in DOMAIN fieldParticles :
         LET p == fieldParticles[i]
             q == fieldParticles'[i]
         IN  /\ q.x = p.x + p.vx
             /\ q.y = p.y + p.vy
             /\ q.vx = IF OutsideX(q, surface) THEN -p.vx ELSE p.vx
             /\ q.vy = IF OutsideY(q, surface) THEN -p.vy ELSE p.vy]_vars

\* A moving particle has just crossed the left edge only, and a frame
\* turned its horizontal velocity.
C17_Witness ==
  /\ lastFieldOp = "frame"
  /\ \E i \in DOMAIN fieldParticles :
       LET p == fieldParticles[i]
       IN  /\ p.x = -1 /\ p.vx = 1
           /\ ~OutsideY(p, surface) /\ p.vy = -1

\* C18: a particle is out of bounds for at most one frame: in every run,
\* resizes included, a particle that is beyond a bound of the surface after
\* one tick is back within the bounds of that axis after the next tick.
C18_InsideAfterNextTick ==
  [][(lastFieldOp = "frame" /\ lastFieldOp' = "frame") =>
       \A i \in DOMAIN fieldParticles :
         LET p == fieldParticles[i]
             q == fieldParticles'[i]
         IN  /\ OutsideX(p, surface) => ~OutsideX(q, surface')
             /\ OutsideY(p, surface) => ~OutsideY(q, surface')]_vars

(***************************************************************************)
(* Field validation.  A value is the sequence of its characters, each one  *)
(* standing for its class: "a" a letter, "1" a digit, " " white space,     *)
(* "@" and ".".                                                            *)
(***************************************************************************)
Rep(c, n) == [i \in 1..n |-> c]

\* String.prototype.trim
RECURSIVE Trim(_)
Trim(v) ==
  IF v = <<>> THEN v
  ELSE IF Head(v) = " " THEN Trim(Tail(v))
  ELSE IF v[Len(v)] = " " THEN Trim(SubSeq(v, 1, Len(v) - 1))
  ELSE v

\* /^[a-zA-Z\s]+$/ and /^[^\s@]+@[^\s@]+\.[^\s@]+$/
Test(pattern, v) ==
  IF pattern = "name"
    THEN Len(v) >= 1 /\ \A k \in DOMAIN v : v[k] \in {"a", " "}
    ELSE \E i, j \in DOMAIN v :
           /\ 1 < i /\ i + 1 < j /\ j < Len(v)
           /\ v[i] = "@" /\ v[j] = "."
           /\ \A k \in DOMAIN v : k # i => v[k] \notin {" ", "@"}

\* setupValidators; 0 and "none" stand for a rule the validator lacks
Validators ==
  [name    |-> [required |-> TRUE, minLength |-> 2, maxLength |-> 0,
                pattern |-> "name"],
   email   |-> [required |-> TRUE, minLength |-> 0, maxLength |-> 0,
                pattern |-> "email"],
   subject |-> [required |-> TRUE, minLength |-> 0, maxLength |-> 0,
                pattern |-> "none"],
   message |-> [required |-> TRUE, minLength |-> 10, maxLength |-> 1000,
                pattern |-> "none"]]

\* validateField(field): the value it returns
ValidateField(name, raw) ==
  LET value == Trim(raw)
  IN  IF name \notin DOMAIN Validators THEN TRUE
      ELSE LET validator == Validators[name]
           IN  IF validator.required /\ value = <<>> THEN FALSE
               ELSE IF value # <<>> /\ validator.pattern # "none"
                         /\ ~Test(validator.pattern, value) THEN FALSE
               ELSE IF value # <<>> /\ validator.minLength # 0
                         /\ Len(value) < validator.minLength THEN FALSE
               ELSE IF value # <<>> /\ validator.maxLength # 0
                         /\ Len(value) > validator.maxLength THEN FALSE
               ELSE TRUE

\* updateFieldState, reached only for a field that has a validator
UpdateFieldState(errors, name, isValid) ==
  IF name \notin DOMAIN Validators THEN errors
  ELSE IF isValid THEN errors \ {name} ELSE errors \cup {name}

\* The form's [name] elements, in document order.
FieldOrder == <<"name", "email", "subject", "message", "phone">>

\* fields.forEach(field => { if (!this.validateField(field)) isValid = false })
\* from field i on, with the verdict and the error marks so far
RECURSIVE ForEachField(_, _, _, _)
ForEachField(values, isValid, errors, i) ==
  IF i > Len(FieldOrder) THEN [isValid |-> isValid, errors |-> errors]
  ELSE LET name == FieldOrder[i]
           ok == ValidateField(name, values[name])
       IN  ForEachField(values, isValid /\ ok,
                        UpdateFieldState(errors, name, ok), i + 1)

ValidateFormStopsAtFirst(values, errors) ==
  LET bad == {k \in DOMAIN FieldOrder :
                ~ValidateField(FieldOrder[k], values[FieldOrder[k]])}
      first == IF bad = {} THEN Len(FieldOrder)
               ELSE CHOOSE k \in bad : \A m \in bad : k <= m
      seen == {FieldOrder[k] : k \in 1..first} \cap DOMAIN Validators
  IN  [isValid |-> bad = {},
       errors |-> (errors \ seen)
                    \cup (IF bad = {} THEN {} ELSE {FieldOrder[first]})]

\* validateForm
ValidateForm(values, errors) == ForEachField(values, TRUE, errors, 1)

\* form 'submit' with the fields followed
HandleSubmitFields ==
  LET checked == ValidateForm(fieldValue, fieldError)
  IN  /\ initPc = "done"
      /\ submitBtnPresent => ~btnDisabled
      /\ fieldError' = checked.errors
      /\ lastFormOp' = "submit"
      /\ StartSubmission(checked.isValid)
      /\ UNCHANGED <<fieldValue, menuVars, initVars, showVars, domVars,
                     scrollVars, slideVars, fieldVars, appVars, frameVars,
                     particleVars, statVars, navVars, revealVars>>

\* 'input' on a field: the user changes its value; clearFieldError
InputField(name, raw) ==
  /\ initPc = "done"
  /\ fieldValue[name] # raw
  /\ fieldValue' = [fieldValue EXCEPT ![name] = raw]
  /\ fieldError' = fieldError \ {name}
  /\ lastFormOp' = "input"
  /\ UNCHANGED <<menuVars, initVars, showVars, domVars, scrollVars, slideVars,
                 fieldVars, thrown, appVars, frameVars, particleVars, statVars,
                 navVars, revealVars, formVars>>

\* 'blur' on a field: validateField
BlurField(name) ==
  /\ initPc = "done"
  /\ fieldError' = UpdateFieldState(fieldError, name,
                                    ValidateField(name, fieldValue[name]))
  /\ lastFormOp' = "blur"
  /\ UNCHANGED <<fieldValue, menuVars, initVars, showVars, domVars, scrollVars,
                 slideVars, fieldVars, thrown, appVars, frameVars,
                 particleVars, statVars, navVars, revealVars, formVars>>

\* What the user may type into each field.
Values ==
  [name    |-> {<<"a">>, <<"a", " ", "a">>, <<"a", "1">>},
   email   |-> {<<"a", "@", "a">>, <<"a", "@", "a", ".", "a">>},
   subject |-> {<<" ">>, <<"a">>},
   message |-> {Rep("a", 9), <<" ">> \o Rep("a", 10), Rep("a", 1000),
                Rep("a", 1001)},
   phone   |-> {<<"1">>}]

Fields == DOMAIN Values

\* A contact form with its four validated fields and one field without a
\* validator, all empty as the page loads them.
PageFields ==
  /\ fieldValue = [f \in Fields |-> <<>>]
  /\ fieldError = {}
  /\ frameCount = 0
  /\ frameActive = {}
  /\ placeholderActive = {}

\* The form up to the moment a submission is under way.
InitValidate ==
  Constructed /\ PageChrome /\ PageNoField /\ PageNoCanvas /\ PageNoStats
    /\ PageNoNav /\ PageNoReveal /\ PageForm /\ PageFields

NextValidate ==
  \/ InitContinue
  \/ HandleSubmitFields
  \/ \E f \in Fields : \E v \in Values[f] : InputField(f, v)
  \/ \E f \in Fields : BlurField(f)

SpecValidate == InitValidate /\ [][NextValidate]_vars

\* The fields validateField rejects as they stand.
InvalidFields == {f \in Fields : ~ValidateField(f, fieldValue[f])}

\* C21: a submit checks every named field, so that exactly the invalid
\* fields carry the error state afterwards; with at least one invalid field
\* the button, the timers and the attempt record are left as they were (no
\* submitForm, hence no analytics form event later), and with none a
\* submission starts.
C21_InvalidSubmitStartsNothing ==
  [][HandleSubmitFields =>
       /\ fieldError' = InvalidFields
       /\ InvalidFields # {} => UNCHANGED formVars
       /\ InvalidFields = {} => attempt'.n = attempt.n + 1]_vars

C21_Witness ==
  /\ lastFormOp = "submit"
  /\ {"name", "message"} \subseteq fieldError
  /\ "subject" \notin fieldError
  /\ Trim(fieldValue["email"]) # <<>>
  /\ attempt = NoAttempt
  /\ btnState = "default"

\* C22: once the throttle window of the last scroll event is over, the
\* application reflects the page's scroll offset: state.scrollPosition equals
\* it and the header carries header--scrolled exactly when it is above the
\* threshold.
C22_FinalScrollOffsetReflected ==
  (initPc = "done" /\ headerPresent /\ ~scrollInThrottle) =>
    /\ scrollPosition = pageYOffset
    /\ headerScrolled = (pageYOffset > scrollThreshold)

\* C23: once updateActiveLink has run, the links marked active are the links
\* whose href is # followed by state.currentSection.
C23_ActiveLinkIsCurrentSection ==
  lastLinkArg # "" => linkActive = LinksTo(currentSection)

(***************************************************************************)
(* Further calls of init() on the same instance.                           *)
(***************************************************************************)
MaxInits == 2         \* init() calls made after the constructor's

\* app.init(), called by the code that constructed the app.  Before the
\* constructor's init() has resumed, isInitialized is still false: the call
\* runs initializeModules() and suspends at the await in its turn.
InitCall ==
  /\ pendingInits < MaxInits
  /\ IF isInitialized
       THEN UNCHANGED initVars
       ELSE /\ modulesBuilt' = modulesBuilt + 1
            /\ pendingInits' = pendingInits + 1
            /\ UNCHANGED setups
  /\ UNCHANGED <<inputVars, menuVars, showVars, domVars, scrollVars, slideVars,
                 fieldVars, thrown, appVars, frameVars, particleVars, statVars,
                 navVars, revealVars, formVars>>

\* The continuation of such a call: a microtask queued behind the
\* constructor's continuation.
InitContinueAgain ==
  /\ initPc = "done"
  /\ pendingInits > 0
  /\ CanInitialize
  /\ pendingInits' = pendingInits - 1
  /\ setups' = setups + 1
  /\ isInitialized' = TRUE
  /\ InitializeParticles(offsetSize, rafQueue)
  /\ AnimateStatistics
  /\ UNCHANGED <<modulesBuilt, inputVars, menuVars, showVars, domVars,
                 scrollVars, slideVars, fieldVars, thrown, initPc, clock,
                 canvasPresent, offsetSize, resizeInThrottle, hidden, phase,
                 loopsAtPause, navVars, revealVars, formVars>>

InitAgain ==
  Constructed /\ PageChrome /\ PagePlain /\ PageNoField /\ PageCanvas
    /\ PageStatsOf(Stats) /\ PageNoNav /\ PageNoReveal /\ PageForm

\* Frames run once the microtasks of the constructing task are through.
NextAgain ==
  \/ InitCall
  \/ InitContinue
  \/ InitContinueAgain
  \/ \E d \in 1..2 : pendingInits = 0 /\ RenderFrame(d)

SpecAgain == InitAgain /\ [][NextAgain]_vars

\* C24: the modules are constructed once, and the listeners and observers
\* are set up at most once.
C24_InitialisedOnce == modulesBuilt <= 1 /\ setups <= 1

(***************************************************************************)
(* The mobile menu: a page with #nav-toggle, #nav-menu and the navigation  *)
(* links.                                                                  *)
(***************************************************************************)
menuRest == <<inputVars, initVars, showVars, domVars, scrollVars, slideVars,
              fieldVars, thrown, appVars, frameVars, particleVars, statVars,
              navVars, revealVars, formVars>>

\* click on #nav-toggle
ToggleClick == ToggleMobileMenu /\ UNCHANGED menuRest

\* click on the document outside .nav
OutsideClick ==
  /\ IF isMenuOpen THEN CloseMobileMenu ELSE UNCHANGED menuVars
  /\ UNCHANGED menuRest

\* keydown with e.key === 'Escape'
EscapeKey ==
  /\ IF isMenuOpen THEN CloseMobileMenu ELSE UNCHANGED menuVars
  /\ UNCHANGED menuRest

InitMenu ==
  Constructed /\ PageChromeOf(BOOLEAN, {TRUE}, {TRUE}, {TRUE})
    /\ pauseDisabled = TRUE /\ PagePlain /\ PageNoField /\ PageNoCanvas
    /\ PageNoStats /\ PageNav /\ PageNoReveal /\ PageForm

NextMenu ==
  \/ InitContinue
  \/ ToggleClick
  \/ OutsideClick
  \/ EscapeKey
  \/ \E l \in Links : HandleNavClick(l)
  \/ \E layout \in Sizes : HandleResize(layout)
  \/ ResizeThrottleExpires

SpecMenu == InitMenu /\ [][NextMenu]_vars

MenuShownOpen ==
  menuActive /\ ariaExpanded = "true" /\ bodyOverflow = "hidden"

MenuShownClosed ==
  ~menuActive /\ ariaExpanded = "false" /\ bodyOverflow = ""

\* C25: state.isMenuOpen is true exactly when the menu carries
\* nav__list--active, aria-expanded is 'true' and the body's overflow is
\* hidden (and a closed menu shows none of the three); a step that finds the
\* menu closed and leaves it closed changes nothing of the menu.
C25_MenuStateConsistent ==
  /\ [](IF isMenuOpen THEN MenuShownOpen ELSE MenuShownClosed)
  /\ [][(~isMenuOpen /\ ~isMenuOpen') => UNCHANGED menuVars]_vars

\* The menu is open again after a navigation click and a resize have run.
C25_Witness ==
  /\ isMenuOpen /\ MenuShownOpen
  /\ lastLinkArg # ""
  /\ resizeInThrottle /\ offsetSize = "wide"

(***************************************************************************)
(* AnimationModule: the slide animation and its frames.                    *)
(***************************************************************************)
MaxFrames == 3        \* .frame elements on the page

Frames == 1..frameCount

\* showFrame(frameNumber), with updateFrameContent(); the page has one
\* .frame-placeholder per frame
ShowFrame(frameNumber) ==
  /\ frameActive' = {index \in Frames : index = frameNumber}
  /\ currentFrame' = frameNumber
  /\ placeholderActive' = {index \in Frames : index = frameNumber}

NextFrameNumberNoWrap == currentFrame + 1

\* nextFrame(): the new value of currentFrame
NextFrameNumber == IF currentFrame >= frameCount THEN 1 ELSE currentFrame + 1

showRest == <<frameCount, inputVars, menuVars, initVars, slideVars, thrown,
              events, slideRest>>

\* The interval timer of playAnimation fires: nextFrame()
IntervalTick ==
  /\ intervals > 0
  /\ ShowFrame(NextFrameNumber)
  /\ lastFrameOp' = "tick"
  /\ UNCHANGED showRest

\* click on the frame at position index
FrameClick(index) ==
  /\ ShowFrame(index + 1)
  /\ lastFrameOp' = "click"
  /\ UNCHANGED showRest

\* playAnimation() and pauseAnimation() called on the module
PlayRequest ==
  /\ initPc = "done"
  /\ PlayAnimation
  /\ UNCHANGED <<moreVars, slideRest>>

PauseRequest ==
  /\ initPc = "done"
  /\ PauseAnimation
  /\ UNCHANGED <<moreVars, slideRest>>

\* A page with up to MaxFrames frames, any of them marked active in the
\* markup, and with or without each slide button.
PageSlide ==
  /\ PageChromeOf({TRUE}, BOOLEAN, BOOLEAN, {TRUE})
  /\ frameCount \in 0..MaxFrames
  /\ frameActive \in SUBSET Frames
  /\ placeholderActive = {}
  /\ fieldValue = <<>>
  /\ fieldError = {}

InitSlide ==
  Constructed /\ PageSlide /\ PageNoField /\ PageNoCanvas /\ PageNoStats
    /\ PageNoNav /\ PageNoReveal /\ PageForm

NextSlide ==
  \/ InitContinue
  \/ PlayClick
  \/ PauseClick
  \/ PlayRequest
  \/ PauseRequest
  \/ IntervalTick
  \/ \E index \in 0..(frameCount - 1) : FrameClick(index)

SpecSlide == InitSlide /\ [][NextSlide]_vars

\* C26: at most one interval timer is active, and isPlaying,
\* state.animationPlaying and the existence of an interval timer agree.
C26_PlayStateAgrees ==
  /\ intervals <= 1
  /\ isPlaying = animationPlaying
  /\ isPlaying = (intervals > 0)

\* C27: with at least one frame, once nextFrame or showFrame has run,
\* currentFrame is within 1..n and exactly the frame at that position is
\* active; a timer tick moves currentFrame on by one and from n back to 1.
C27_FrameInRangeAndActive ==
  /\ []((frameCount >= 1 /\ lastFrameOp # "none") =>
          (currentFrame \in Frames /\ frameActive = {currentFrame}))
  /\ [][(IntervalTick /\ frameCount >= 1 /\ currentFrame \in Frames) =>
          currentFrame' = (currentFrame % frameCount) + 1]_vars

\* A tick has wrapped from the last of three frames to the first.
C27_Witness ==
  /\ frameCount = MaxFrames
  /\ lastFrameOp = "tick"
  /\ currentFrame = 1
  /\ frameActive = {1}
  /\ Len(events) >= 1

====
